---------------------------- MODULE Spec2Model ----------------------------
(***************************************************************************)
(* A model of the particle Christmas tree (src/App.tsx and                 *)
(* src/components/ChristmasTree.tsx): the TreeState toggle, the per-layer  *)
(* progress integration done by every useFrame callback, the generation of *)
(* the per-particle stores and the per-frame interpolation of positions.   *)
(*                                                                         *)
(* Numbers.  The program computes in IEEE doubles; the model computes in   *)
(* fixed point, every division rounding to the nearest unit:               *)
(*   progress, ease values, Math.random()   SCALE units per 1.0            *)
(*   velocities                             SCALE units per second         *)
(*   world coordinates                      PU units per world unit        *)
(*   angles, sines and cosines              TRIG units per radian / per 1.0*)
(*   frame delta and smoothTime             tenths of a second             *)
(* Time-driven secondary motion (uTime, clock.elapsedTime, the topper's    *)
(* rotation) grows without bound and is left out: the model keeps the      *)
(* progress scalars, the stores and the base positions.                    *)
(***************************************************************************)
EXTENDS Integers, Sequences, FiniteSets

\* ------------------------------------------------------------ resolution
SCALE == 10^4
PU    == 10^3
TRIG  == 10^4
RU    == 10^3      \* Math.random() is one of 0/RU .. (RU-1)/RU

\* ---------------------------------------------------------------- bounds
MaxToggles    == 2      \* toggle clicks in one behaviour
MaxSeed       == 1      \* seeds of the random source are 0..MaxSeed
GenSeeds      == 63     \* seeds of the random source when only the stores are generated
EaseSamples   == 200    \* progress values the ease functions are applied to
FOLIAGE_COUNT == 12     \* CONFIG.FOLIAGE_COUNT, cut down
BAUBLE_COUNT  == 4      \* CONFIG.BAUBLE_COUNT, cut down
GIFT_COUNT    == 3      \* CONFIG.GIFT_COUNT, cut down
LIGHT_COUNT   == 4      \* CONFIG.LIGHT_COUNT, cut down
Deltas        == {5, 10}  \* frame deltas the render loop supplies (0.5 s, 1 s)

\* ------------------------------------------------------ program constants
TREE_HEIGHT       == 16000   \* CONFIG.TREE_HEIGHT = 16, in PU
TREE_RADIUS       == 6500    \* CONFIG.TREE_RADIUS = 6.5, in PU
SCATTER_RADIUS    == 35000   \* CONFIG.SCATTER_RADIUS = 35, in PU
GOLDEN_ANGLE      == 23999   \* 2.39996 rad, in 1/TRIG rad (rounded down: 2.3999)
GIFT_ANGLE        == 1375000 \* 137.5 rad, in 1/TRIG rad
LIGHT_TURNS       == 500000  \* 50.0 rad, in 1/TRIG rad
FOLIAGE_SMOOTH    == 12      \* smoothTime 1.2 s
ORNAMENT_SMOOTH   == 12      \* smoothTime 1.2 s
LIGHT_SMOOTH      == 10      \* smoothTime 1.0 s
TOPPER_SMOOTH     == 5       \* smoothTime 0.5 s
PALETTE_LENGTH    == 5       \* palette.length

\* ------------------------------------------------------------ arithmetic
Abs(a) == IF a < 0 THEN -a ELSE a

\* a / b rounded to the nearest integer (halves upwards), b > 0
RoundDiv(a, b) == (2 * a + b) \div (2 * b)

\* Math.floor(a / b), b > 0
FloorDiv(a, b) == a \div b

\* Math.sqrt on 0..10^6, rounded down
ISqrt(n) == CHOOSE k \in 0..1000 : k * k <= n /\ n < (k + 1) * (k + 1)

\* Math.cbrt on 0..10^9, rounded down
ICbrt(n) == CHOOSE k \in 0..1000 : k * k * k <= n /\ n < (k + 1) * (k + 1) * (k + 1)

\* --------------------------------------------------------- Math.sin, cos
PI_T      == 31416           \* Math.PI, in 1/TRIG rad
HALF_PI_T == PI_T \div 2
TWO_PI_T  == 2 * PI_T

\* sin on [0, pi/2] by its Taylor series up to x^9, in Horner form
SinQ(x) ==
  LET x2 == RoundDiv(x * x, TRIG)
      h4 == TRIG - RoundDiv(x2, 72)
      h3 == TRIG - RoundDiv(x2 * h4, 42 * TRIG)
      h2 == TRIG - RoundDiv(x2 * h3, 20 * TRIG)
      h1 == TRIG - RoundDiv(x2 * h2, 6 * TRIG)
  IN  RoundDiv(x * h1, TRIG)

Sin(a) ==
  LET m == a % TWO_PI_T
  IN  IF m <= HALF_PI_T THEN SinQ(m)
      ELSE IF m <= PI_T THEN SinQ(PI_T - m)
      ELSE IF m <= PI_T + HALF_PI_T THEN -SinQ(m - PI_T)
      ELSE -SinQ(TWO_PI_T - m)

Cos(a) == Sin(a + HALF_PI_T)

\* ----------------------------------------------------------- Math.random
\* The random source: a counter-based generator.  Its state steps through
\* 0..RU-1 (a Weyl sequence) and a call returns the state scrambled, in 1/RU.
RandomState(s, k) == (s + 389 * k) % RU

RandomScramble(n) == (37 * n * n + 211 * n + 97) % RU

\* what the (k+1)-th call of Math.random() returns, from state s
MathRandom(s, k) == RandomScramble(RandomState(s, k + 1))

\* --------------------------------------------------------------- helpers
Vec3(x, y, z) == [x |-> x, y |-> y, z |-> z]

\* getSpherePoint(r), drawing the calls k, k+1, k+2 of the random source s.
\* sin(acos(c)) is computed as sqrt(1 - c^2).
getSpherePoint(r, s, k) ==
  LET u      == MathRandom(s, k)
      v      == MathRandom(s, k + 1)
      theta  == RoundDiv(TWO_PI_T * u, RU)
      cosPhi == 2 * v - RU
      rad    == RoundDiv(ICbrt(MathRandom(s, k + 2) * RU * RU) * r, RU)
      sinPhi == ISqrt(RU * RU - cosPhi * cosPhi)
      rs     == RoundDiv(rad * sinPhi, RU)
  IN  Vec3(RoundDiv(rs * Cos(theta), TRIG),
           RoundDiv(rs * Sin(theta), TRIG),
           RoundDiv(rad * cosPhi, RU))

\* The radius of the cone at height y (mutated below: a cone that widens upwards)
ConeRadiusWidening(y, height, radiusBase) == RoundDiv(y * radiusBase, height)

ConeRadius(y, height, radiusBase) == RoundDiv((height - y) * radiusBase, height)

\* getConePoint(idx, total, height, radiusBase): the golden spiral cone
getConePoint(idx, total, height, radiusBase) ==
  LET y   == RoundDiv(idx * height, total)
      r   == ConeRadius(y, height, radiusBase)
      phi == idx * GOLDEN_ANGLE
  IN  Vec3(RoundDiv(r * Cos(phi), TRIG), y - height \div 2, RoundDiv(r * Sin(phi), TRIG))

\* (Math.random() - 0.5) * 1.5, in PU
Jitter(rv) == RoundDiv((2 * rv - RU) * 3 * PU, 4 * RU)

\* Foliage useMemo: particle i (0-based) takes the calls 8i .. 8i+7
FoliageParticle(i, s) ==
  LET b     == 8 * i
      treeP == getConePoint(i, FOLIAGE_COUNT, TREE_HEIGHT, TREE_RADIUS)
  IN  [treePos    |-> Vec3(treeP.x + Jitter(MathRandom(s, b)),
                           treeP.y + Jitter(MathRandom(s, b + 1)),
                           treeP.z + Jitter(MathRandom(s, b + 2))),
       scatterPos |-> getSpherePoint(SCATTER_RADIUS, s, b + 3),
       random     |-> MathRandom(s, b + 6),
       size       |-> PU \div 2 + RoundDiv(MathRandom(s, b + 7) * 2 * PU, RU)]

FoliageAttributes(s) == [n \in 1..FOLIAGE_COUNT |-> FoliageParticle(n - 1, s)]

\* Ornaments useMemo, baubles: particle i takes the calls 8i .. 8i+7
\* (the two draws of rotOffset are made and not kept)
BaubleData(i, s) ==
  LET b == 8 * i
  IN  [treePos    |-> getConePoint(i, BAUBLE_COUNT, TREE_HEIGHT, (TREE_RADIUS * 9) \div 10),
       scatterPos |-> getSpherePoint((SCATTER_RADIUS * 12) \div 10, s, b),
       color      |-> FloorDiv(MathRandom(s, b + 3) * PALETTE_LENGTH, RU),
       scale      |-> (3 * PU) \div 10 + RoundDiv(MathRandom(s, b + 6) * 3 * PU, 10 * RU),
       speed      |-> PU + RoundDiv(MathRandom(s, b + 7) * PU, 2 * RU)]

\* Ornaments useMemo, gifts: particle i takes the calls 9i .. 9i+8
GiftData(i, s) ==
  LET b     == 9 * i
      rv    == MathRandom(s, b)
      yBias == RoundDiv(rv * rv, RU)
      h     == RoundDiv(yBias * (TREE_HEIGHT - 2 * PU), RU)
      r     == RoundDiv((TREE_HEIGHT - h) * (TREE_RADIUS + (12 * PU) \div 10), TREE_HEIGHT)
      angle == i * GIFT_ANGLE
  IN  [treePos    |-> Vec3(RoundDiv(r * Cos(angle), TRIG),
                           h - TREE_HEIGHT \div 2 + PU \div 2,
                           RoundDiv(r * Sin(angle), TRIG)),
       scatterPos |-> getSpherePoint((SCATTER_RADIUS * 8) \div 10, s, b + 1),
       scale      |-> PU \div 4 + RoundDiv(MathRandom(s, b + 7) * 2 * PU, 10 * RU),
       speed      |-> (4 * PU) \div 10 + RoundDiv(MathRandom(s, b + 8) * 3 * PU, 10 * RU)]

\* FairyLights useMemo: particle i takes the calls 3i .. 3i+2
LightParticle(i, s) ==
  LET h     == RoundDiv(i * TREE_HEIGHT, LIGHT_COUNT)
      r     == RoundDiv((LIGHT_COUNT - i) * (TREE_RADIUS + (2 * PU) \div 10), LIGHT_COUNT)
      angle == RoundDiv(i * LIGHT_TURNS, LIGHT_COUNT)
  IN  [treePos    |-> Vec3(RoundDiv(r * Cos(angle), TRIG),
                           h - TREE_HEIGHT \div 2,
                           RoundDiv(r * Sin(angle), TRIG)),
       scatterPos |-> getSpherePoint((SCATTER_RADIUS * 11) \div 10, s, 3 * i)]

LightAttributes(s) == [n \in 1..LIGHT_COUNT |-> LightParticle(n - 1, s)]

\* The calls of Math.random() each useMemo makes, in render order:
\* Foliage, then Ornaments (baubles, then gifts), then FairyLights
FoliageCalls == 8 * FOLIAGE_COUNT
BaubleCalls  == 8 * BAUBLE_COUNT
GiftCalls    == 9 * GIFT_COUNT

\* ------------------------------------------------------------------ ease
\* Math.pow(b, 3.0) / pow(b, 3.0), b in 0..2*SCALE
Pow3(b) == RoundDiv(RoundDiv(b * b, SCALE) * b, SCALE)

\* foliageVertexShader: float ease(float t)
EaseShader(t) ==
  IF 2 * t < SCALE THEN 4 * Pow3(t) ELSE SCALE - RoundDiv(Pow3(2 * SCALE - 2 * t), 2)

\* A slip in the inline copy: the first branch's factor 4.0 typed as 2.0
EaseInlineSlip(t) ==
  IF 2 * t < SCALE THEN 2 * Pow3(t) ELSE SCALE - RoundDiv(Pow3(2 * SCALE - 2 * t), 2)

\* FairyLights useFrame: const easeT = t < 0.5 ? ... : ...
EaseInline(t) ==
  IF 2 * t < SCALE THEN 4 * Pow3(t) ELSE SCALE - RoundDiv(Pow3(2 * SCALE - 2 * t), 2)

\* A slip in the shader: the ends of mix exchanged
MixSwapped(a, b, t) ==
  Vec3(RoundDiv(b.x * (SCALE - t) + a.x * t, SCALE),
       RoundDiv(b.y * (SCALE - t) + a.y * t, SCALE),
       RoundDiv(b.z * (SCALE - t) + a.z * t, SCALE))

\* GLSL mix(a, b, t) = a * (1 - t) + b * t, per component
Mix(a, b, t) ==
  Vec3(RoundDiv(a.x * (SCALE - t) + b.x * t, SCALE),
       RoundDiv(a.y * (SCALE - t) + b.y * t, SCALE),
       RoundDiv(a.z * (SCALE - t) + b.z * t, SCALE))

\* THREE.Vector3.lerpVectors(v1, v2, alpha) = v1 + (v2 - v1) * alpha
lerpVectors(v1, v2, alpha) ==
  Vec3(v1.x + RoundDiv((v2.x - v1.x) * alpha, SCALE),
       v1.y + RoundDiv((v2.y - v1.y) * alpha, SCALE),
       v1.z + RoundDiv((v2.z - v1.z) * alpha, SCALE))

\* ------------------------------------------------------- maath easing.damp
EPS == SCALE \div 1000     \* eps = 0.001

\* maath's exp easing, 1 / (1 + x + 0.48 x^2 + 0.235 x^3) at x = omega * delta
\* = 2 * delta / smoothTime, in 1/SCALE
DampExp(smoothTime, delta) ==
  LET d == smoothTime
      k == delta
  IN  RoundDiv(SCALE * 25 * d * d * d,
               25 * d * d * d + 50 * k * d * d + 48 * k * k * d + 47 * k * k * k)

\* easing.damp(current, prop, target, smoothTime, delta) with maxSpeed = Infinity
\* and eps = 0.001: the new value of current[prop] and of its velocity in
\* current.__damp.  omega = 2 / smoothTime = 20 / d per second, delta = k / 10 s.
Damp(current, velocity, target, smoothTime, delta) ==
  IF Abs(current - target) <= EPS
  THEN [current |-> target, velocity |-> velocity]
  ELSE LET t      == DampExp(smoothTime, delta)
           change == current - target
           temp   == RoundDiv((velocity * smoothTime + 20 * change) * delta, 10 * smoothTime)
           vel    == RoundDiv((velocity - RoundDiv(20 * temp, smoothTime)) * t, SCALE)
           output == target + RoundDiv((change + temp) * t, SCALE)
       IN  \* Prevent overshooting
           IF (target - current > 0) = (output > target)
           THEN [current |-> target, velocity |-> 0]
           ELSE [current |-> output, velocity |-> vel]

\* ------------------------------------------------------------------ state
VARIABLES
  treeState,        \* App: useState<TreeState>
  rng,              \* the state of the random source
  mounted,          \* the scene's components have rendered (useMemo has run)
  foliageAttr,      \* Foliage: attributes (aTreePos, aScatterPos, aRandom, aSize)
  baubles,          \* Ornaments: bData
  gifts,            \* Ornaments: gData
  lightAttr,        \* FairyLights: attributes (treePos, scatterPos)
  foliageProgress,  \* Foliage: progressRef (current, __damp.velocity_current)
  uProgress,        \* Foliage: materialRef.current.uniforms.uProgress.value
  foliagePos,       \* Foliage: pos = mix(aScatterPos, aTreePos, t) of the last render
  userData,         \* ctx.camera.userData (ornamentProgress, __damp.velocity_...)
  baublePos,        \* Ornaments: pos of each bauble in the last frame
  giftPos,          \* Ornaments: pos of each gift in the last frame
  lightsProgress,   \* FairyLights: progressRef
  lightPos,         \* FairyLights: geometry.attributes.position
  topperScale,      \* Topper: mesh.current.scale (x, y, z) and its __damp velocities
  target,           \* the target each useFrame callback computed in the last frame
  lastOp,           \* the last operation: "init", "mount", "toggle" or "frame"
  flips,            \* toggles since the last frame
  frameState,       \* treeState as the last frame (or the start) saw it
  toggles,          \* toggles so far
  midFlight,        \* some toggle came while a layer was away from its target
  easeArg,          \* ease functions: the progress value applied
  easeShaderOut,    \* ease functions: what the shader's ease returns for it
  easeInlineOut     \* ease functions: what the inline easeT is for it

sceneVars == <<treeState, rng, mounted, foliageAttr, baubles, gifts, lightAttr,
               foliageProgress, uProgress, foliagePos, userData, baublePos, giftPos,
               lightsProgress, lightPos, topperScale, target, lastOp, flips,
               frameState, toggles, midFlight>>
easeVars  == <<easeArg, easeShaderOut, easeInlineOut>>
vars      == <<sceneVars, easeVars>>

\* ------------------------------------------------------------------ Init
ZeroVec == Vec3(0, 0, 0)

\* The state before the scene's first render, the random source seeded from seeds
InitFrom(seeds) ==
  /\ treeState = "SCATTERED"
  /\ rng \in seeds
  /\ mounted = FALSE
  /\ foliageAttr = << >>
  /\ baubles = << >>
  /\ gifts = << >>
  /\ lightAttr = << >>
  /\ foliageProgress = [current |-> 0, velocity |-> 0]
  /\ uProgress = 0
  /\ foliagePos = << >>
  /\ userData = [defined |-> FALSE, ornamentProgress |-> 0, velocity |-> 0]
  /\ baublePos = << >>
  /\ giftPos = << >>
  /\ lightsProgress = [current |-> 0, velocity |-> 0]
  /\ lightPos = << >>
  /\ topperScale = [x |-> [current |-> SCALE, velocity |-> 0],
                    y |-> [current |-> SCALE, velocity |-> 0],
                    z |-> [current |-> SCALE, velocity |-> 0]]
  /\ target = [foliage |-> 0, ornaments |-> 0, lights |-> 0, topper |-> 0]
  /\ lastOp = "init"
  /\ flips = 0
  /\ frameState = "SCATTERED"
  /\ toggles = 0
  /\ midFlight = FALSE
  /\ easeArg = 0
  /\ easeShaderOut = 0
  /\ easeInlineOut = 0

Init == InitFrom(0..MaxSeed)

\* ----------------------------------------------------------------- targets
\* Foliage useFrame: const target = state === TreeState.TREE_SHAPE ? 1 : 0
FoliageTarget(state) == IF state = "TREE_SHAPE" THEN SCALE ELSE 0

\* Ornaments useFrame: const target = ...
OrnamentTargetInverted(state) == IF state = "SCATTERED" THEN SCALE ELSE 0

OrnamentTarget(state) == IF state = "TREE_SHAPE" THEN SCALE ELSE 0

\* FairyLights useFrame: const target = ...
LightTargetInverted(state) == IF state = "SCATTERED" THEN SCALE ELSE 0

LightTarget(state) == IF state = "TREE_SHAPE" THEN SCALE ELSE 0

\* ChristmasTree: <Topper visible={state === TreeState.TREE_SHAPE} />
TopperVisibleInverted(state) == state = "SCATTERED"

TopperVisible(state) == state = "TREE_SHAPE"

\* Topper useFrame: const targetScale = visible ? 1.0 : 0
TopperTargetScaleOversized(visible) == IF visible THEN (3 * SCALE) \div 2 ELSE 0

TopperTargetScale(visible) == IF visible THEN SCALE ELSE 0

\* Every layer is at the target the current treeState gives it
Settled ==
  /\ foliageProgress.current = FoliageTarget(treeState)
  /\ userData.defined /\ userData.ornamentProgress = OrnamentTarget(treeState)
  /\ lightsProgress.current = LightTarget(treeState)
  /\ \A c \in {"x", "y", "z"} :
       topperScale[c].current = TopperTargetScale(TopperVisible(treeState))

\* ------------------------------------------------------------------ Mount
\* The first render of the scene: every useMemo runs once, in render order.
Mount ==
  /\ ~mounted
  /\ mounted' = TRUE
  /\ foliageAttr' = FoliageAttributes(rng)
  /\ LET s1 == RandomState(rng, FoliageCalls)
         s2 == RandomState(s1, BaubleCalls)
         s3 == RandomState(s2, GiftCalls)
     IN  /\ baubles' = [n \in 1..BAUBLE_COUNT |-> BaubleData(n - 1, s1)]
         /\ gifts' = [n \in 1..GIFT_COUNT |-> GiftData(n - 1, s2)]
         /\ lightAttr' = LightAttributes(s3)
         /\ rng' = RandomState(s3, 3 * LIGHT_COUNT)
  /\ baublePos' = [n \in 1..BAUBLE_COUNT |-> ZeroVec]
  /\ giftPos' = [n \in 1..GIFT_COUNT |-> ZeroVec]
  /\ lightPos' = [n \in 1..LIGHT_COUNT |-> ZeroVec]
  /\ lastOp' = "mount"
  /\ UNCHANGED <<treeState, foliageProgress, uProgress, foliagePos, userData,
                 lightsProgress, topperScale, target, flips, frameState, toggles,
                 midFlight, easeVars>>

\* ----------------------------------------------------------------- Toggle
\* A toggle that also restarts the foliage transition
ToggleRestarting ==
  /\ toggles < MaxToggles
  /\ treeState' = IF treeState = "SCATTERED" THEN "TREE_SHAPE" ELSE "SCATTERED"
  /\ foliageProgress' = [current |-> SCALE - FoliageTarget(treeState'), velocity |-> 0]
  /\ lastOp' = "toggle"
  /\ flips' = flips + 1
  /\ toggles' = toggles + 1
  /\ midFlight' = (midFlight \/ (mounted /\ ~Settled))
  /\ UNCHANGED <<rng, mounted, foliageAttr, baubles, gifts, lightAttr,
                 uProgress, foliagePos, userData, baublePos, giftPos, lightsProgress,
                 lightPos, topperScale, target, frameState, easeVars>>

\* A toggle that assembles the tree and never scatters it again
ToggleOneWay ==
  /\ toggles < MaxToggles
  /\ treeState' = "TREE_SHAPE"
  /\ lastOp' = "toggle"
  /\ flips' = flips + 1
  /\ toggles' = toggles + 1
  /\ midFlight' = (midFlight \/ (mounted /\ ~Settled))
  /\ UNCHANGED <<rng, mounted, foliageAttr, baubles, gifts, lightAttr, foliageProgress,
                 uProgress, foliagePos, userData, baublePos, giftPos, lightsProgress,
                 lightPos, topperScale, target, frameState, easeVars>>

\* App: toggleState, and the render React commits for it
Toggle ==
  /\ toggles < MaxToggles
  /\ treeState' = IF treeState = "SCATTERED" THEN "TREE_SHAPE" ELSE "SCATTERED"
  /\ lastOp' = "toggle"
  /\ flips' = flips + 1
  /\ toggles' = toggles + 1
  /\ midFlight' = (midFlight \/ (mounted /\ ~Settled))
  /\ UNCHANGED <<rng, mounted, foliageAttr, baubles, gifts, lightAttr, foliageProgress,
                 uProgress, foliagePos, userData, baublePos, giftPos, lightsProgress,
                 lightPos, topperScale, target, frameState, easeVars>>

\* ------------------------------------------------------------------ Frame
\* Each callback's local constants are bound by \E over a singleton, which is
\* the same as LET and is evaluated once per step.
\* Foliage useFrame, and the vertex shader's pos of the render that follows
FoliageFrame(delta) ==
  \E p \in {Damp(foliageProgress.current, foliageProgress.velocity,
                 FoliageTarget(treeState), FOLIAGE_SMOOTH, delta)} :
    \E t \in {EaseShader(p.current)} :
      /\ foliageProgress' = p
      /\ uProgress' = p.current
      /\ foliagePos' = [n \in 1..FOLIAGE_COUNT |->
                          Mix(foliageAttr[n].scatterPos, foliageAttr[n].treePos, t)]

\* Ornaments useFrame
OrnamentsFrame(delta) ==
  \E start \in {IF userData.defined THEN userData.ornamentProgress ELSE 0} :
    \E p \in {Damp(start, userData.velocity, OrnamentTarget(treeState),
                   ORNAMENT_SMOOTH, delta)} :
      \E t \in {p.current} :
        /\ userData' = [defined |-> TRUE, ornamentProgress |-> p.current,
                        velocity |-> p.velocity]
        /\ baublePos' = [n \in 1..BAUBLE_COUNT |->
                           lerpVectors(baubles[n].scatterPos, baubles[n].treePos, t)]
        /\ giftPos' = [n \in 1..GIFT_COUNT |->
                         lerpVectors(gifts[n].scatterPos, gifts[n].treePos, t)]

\* FairyLights useFrame
FairyLightsFrame(delta) ==
  \E p \in {Damp(lightsProgress.current, lightsProgress.velocity,
                 LightTarget(treeState), LIGHT_SMOOTH, delta)} :
    \E easeT \in {EaseInline(p.current)} :
      /\ lightsProgress' = p
      /\ lightPos' = [n \in 1..LIGHT_COUNT |->
           LET tp == lightAttr[n].treePos
               sp == lightAttr[n].scatterPos
           IN  Vec3(sp.x + RoundDiv((tp.x - sp.x) * easeT, SCALE),
                    sp.y + RoundDiv((tp.y - sp.y) * easeT, SCALE),
                    sp.z + RoundDiv((tp.z - sp.z) * easeT, SCALE))]

\* Topper useFrame: easing.damp3 damps x, y and z one by one
TopperFrame(delta) ==
  \E targetScale \in {TopperTargetScale(TopperVisible(treeState))} :
    topperScale' = [c \in {"x", "y", "z"} |->
      Damp(topperScale[c].current, topperScale[c].velocity, targetScale,
           TOPPER_SMOOTH, delta)]

\* A tick in which the FairyLights useFrame also refills the store it reads
\* (attributes rebuilt from fresh draws of the random source)
FrameRegenerating(delta) ==
  /\ mounted
  /\ FoliageFrame(delta)
  /\ OrnamentsFrame(delta)
  /\ FairyLightsFrame(delta)
  /\ TopperFrame(delta)
  /\ lightAttr' = LightAttributes(rng)
  /\ target' = [foliage   |-> FoliageTarget(treeState),
                ornaments |-> OrnamentTarget(treeState),
                lights    |-> LightTarget(treeState),
                topper    |-> TopperTargetScale(TopperVisible(treeState))]
  /\ lastOp' = "frame"
  /\ flips' = 0
  /\ frameState' = treeState
  /\ UNCHANGED <<treeState, rng, mounted, foliageAttr, baubles, gifts,
                 toggles, midFlight, easeVars>>

\* One tick of the render loop: the four useFrame callbacks in the order they
\* subscribed, then the render
Frame(delta) ==
  /\ mounted
  /\ FoliageFrame(delta)
  /\ OrnamentsFrame(delta)
  /\ FairyLightsFrame(delta)
  /\ TopperFrame(delta)
  /\ target' = [foliage   |-> FoliageTarget(treeState),
                ornaments |-> OrnamentTarget(treeState),
                lights    |-> LightTarget(treeState),
                topper    |-> TopperTargetScale(TopperVisible(treeState))]
  /\ lastOp' = "frame"
  /\ flips' = 0
  /\ frameState' = treeState
  /\ UNCHANGED <<treeState, rng, mounted, foliageAttr, baubles, gifts, lightAttr,
                 toggles, midFlight, easeVars>>

Next ==
  \/ Mount
  \/ Toggle
  \/ \E delta \in Deltas : Frame(delta)

Spec == Init /\ [][Next]_vars

\* The render loop keeps supplying frames, and React renders the scene; one
\* seed of the random source, the progress scalars never read the stores
InitLive == InitFrom({0})

LiveSpec ==
  /\ InitLive
  /\ [][Next]_vars
  /\ WF_vars(\E delta \in Deltas : Frame(delta))
  /\ WF_vars(Mount)

\* ------------------------------------------- the stores alone, many seeds
InitGen == InitFrom(0..GenSeeds)

GenSpec == InitGen /\ [][Mount]_vars

\* -------------------------------------------- the ease functions alone
EaseInputs == {(k * SCALE) \div EaseSamples : k \in 0..EaseSamples} \cup {0, SCALE \div 2, SCALE}

InitEase == InitFrom({0})

\* Both copies of the ease function applied to one progress value
ApplyEase(p) ==
  /\ easeArg' = p
  /\ easeShaderOut' = EaseShader(p)
  /\ easeInlineOut' = EaseInline(p)
  /\ UNCHANGED sceneVars

NextEase == \E p \in EaseInputs : ApplyEase(p)

EaseSpec == InitEase /\ [][NextEase]_vars

\* =================================================================== claims
\* What the claims call the target of a TargetShape, and their layers' progress
TargetOf(state) == IF state = "TREE_SHAPE" THEN SCALE ELSE 0

InUnit(x) == 0 <= x /\ x <= SCALE

Near(x, goal) == Abs(x - goal) <= EPS

TopperAxes == {"x", "y", "z"}

\* The four progress scalars, by layer name (the ornaments' one is 0 until the
\* first frame stores it)
ProgressOf(layer) ==
  CASE layer = "foliage"   -> foliageProgress.current
    [] layer = "ornaments" -> IF userData.defined THEN userData.ornamentProgress ELSE 0
    [] layer = "lights"    -> lightsProgress.current
    [] layer = "topper"    -> topperScale.x.current

Layers == {"foliage", "ornaments", "lights", "topper"}

C2_TargetBroadcast ==
  lastOp = "frame" =>
    /\ target.foliage = TargetOf(treeState)
    /\ target.ornaments = TargetOf(treeState)
    /\ target.lights = TargetOf(treeState)
    /\ target.topper = TargetOf(treeState)

\* C2 witness: a frame update that ran with the tree assembled.
C2_Witness ==
  /\ lastOp = "frame"
  /\ treeState = "TREE_SHAPE"
  /\ target.foliage = SCALE /\ target.topper = SCALE

\* C3: two toggles with no frame between them leave TargetShape as the last
\* frame saw it, and the frame that follows integrates every layer toward the
\* target of that value.
C3_DoubleToggleNet ==
  [][/\ flips = 2 => treeState = frameState
     /\ (flips = 2 /\ lastOp' = "frame") =>
          /\ target'.foliage = TargetOf(frameState)
          /\ target'.ornaments = TargetOf(frameState)
          /\ target'.lights = TargetOf(frameState)
          /\ target'.topper = TargetOf(frameState)]_vars

\* C3 witness: two toggles since the last frame, made while the topper was
\* still in transition.
C3_Witness ==
  /\ flips = 2
  /\ mounted
  /\ frameState = treeState
  /\ 0 < topperScale.x.current /\ topperScale.x.current < SCALE

\* C4: a toggle changes TargetShape and nothing that is rendered; the progress
\* scalars and the topper's scale change in frame updates only.
C4_ToggleOnlyRetargets ==
  [][/\ treeState' # treeState =>
          UNCHANGED <<foliageProgress, uProgress, foliagePos, userData, baublePos,
                      giftPos, lightsProgress, lightPos, topperScale>>
     /\ <<foliageProgress, uProgress, userData, lightsProgress, topperScale>>' #
          <<foliageProgress, uProgress, userData, lightsProgress, topperScale>>
          => lastOp' = "frame"]_vars

\* C4 witness: a toggle has just been made while the foliage was in transition.
C4_Witness ==
  /\ lastOp = "toggle"
  /\ mounted
  /\ 0 < foliageProgress.current /\ foliageProgress.current < SCALE
  /\ 0 < lightsProgress.current /\ lightsProgress.current < SCALE

\* A frame update under an unchanged TargetShape
FrameStep == lastOp' = "frame" /\ treeState' = treeState

\* C5: the integration is idempotent at its fixed point.  Once a layer's
\* progress is within epsilon of the target, a frame update with any delta under
\* the same TargetShape puts it on the target exactly; so progress that equals
\* the target is left unchanged by any number of further frame updates.
C5_FixedPointIdempotent ==
  [][FrameStep =>
       /\ Near(foliageProgress.current, TargetOf(treeState))
            => foliageProgress'.current = TargetOf(treeState)
       /\ Near(lightsProgress.current, TargetOf(treeState))
            => lightsProgress'.current = TargetOf(treeState)
       /\ (userData.defined /\ Near(userData.ornamentProgress, TargetOf(treeState)))
            => userData'.ornamentProgress = TargetOf(treeState)
       /\ \A c \in TopperAxes :
            Near(topperScale[c].current, TargetOf(treeState))
              => topperScale'[c].current = TargetOf(treeState)]_vars

\* C5 witness: after a toggle, frame updates have brought every layer onto the
\* target of the assembled tree, where further frames hold it.
C5_Witness ==
  /\ lastOp = "frame"
  /\ toggles >= 1
  /\ treeState = "TREE_SHAPE"
  /\ userData.defined
  /\ \A l \in Layers : ProgressOf(l) = SCALE
  /\ \A c \in TopperAxes : topperScale[c].current = SCALE

\* Every layer is within epsilon of the target of the current TargetShape
AllNear ==
  /\ userData.defined
  /\ \A l \in Layers : Near(ProgressOf(l), TargetOf(treeState))
  /\ \A c \in TopperAxes : Near(topperScale[c].current, TargetOf(treeState))

\* C6: once TargetShape stops changing, every layer's progress comes within
\* epsilon of the target and stays there; in particular after two toggles, the
\* second of which is the last, every layer returns to the scattered end it
\* was heading for before them.
C6_RoundTripConverges ==
  /\ <>[]AllNear
  /\ (<>[](toggles = 2)) => <>[](treeState = "SCATTERED" /\ AllNear)

\* C6 witness: two toggles, one of them in mid-transition, and every layer back
\* at the scattered end.
C6_Witness ==
  /\ toggles = 2
  /\ midFlight
  /\ lastOp = "frame"
  /\ treeState = "SCATTERED"
  /\ AllNear

\* The cubic ease-in-out the claims name: 4t^3 below one half, else
\* 1 - (-2t + 2)^3 / 2
CubicEaseInOut(t) ==
  IF 2 * t < SCALE THEN 4 * Pow3(t) ELSE SCALE - RoundDiv(Pow3(2 * SCALE - 2 * t), 2)

\* Linear interpolation from a to b at parameter t
LinInterp(a, b, t) ==
  Vec3(a.x + RoundDiv((b.x - a.x) * t, SCALE),
       a.y + RoundDiv((b.y - a.y) * t, SCALE),
       a.z + RoundDiv((b.z - a.z) * t, SCALE))

\* Foliage and fairy lights are drawn at the eased progress
EasedLayers ==
  /\ \A n \in 1..FOLIAGE_COUNT :
       foliagePos[n] = LinInterp(foliageAttr[n].scatterPos, foliageAttr[n].treePos,
                                 CubicEaseInOut(foliageProgress.current))
  /\ \A n \in 1..LIGHT_COUNT :
       lightPos[n] = LinInterp(lightAttr[n].scatterPos, lightAttr[n].treePos,
                               CubicEaseInOut(lightsProgress.current))

\* Baubles and gifts are drawn at parameter t
OrnamentsAt(t) ==
  /\ \A n \in 1..BAUBLE_COUNT :
       baublePos[n] = LinInterp(baubles[n].scatterPos, baubles[n].treePos, t)
  /\ \A n \in 1..GIFT_COUNT :
       giftPos[n] = LinInterp(gifts[n].scatterPos, gifts[n].treePos, t)

C8_Staggered ==
  (lastOp = "frame" /\ toggles = 1) =>
    /\ Abs(foliageProgress.current - TargetOf(treeState))
         <= Abs(lightsProgress.current - TargetOf(treeState))
    /\ userData.ornamentProgress = foliageProgress.current

\* C9: both copies of ease give 0 at 0, 1 at 1 and 0.5 at 0.5, stay in [0, 1],
\* never decrease when the argument grows, and agree with each other at every
\* progress in [0, 1].
C9_EaseProperties ==
  /\ [](/\ easeShaderOut = easeInlineOut
        /\ InUnit(easeShaderOut) /\ InUnit(easeInlineOut)
        /\ easeArg = 0 => easeShaderOut = 0
        /\ easeArg = SCALE => easeShaderOut = SCALE
        /\ 2 * easeArg = SCALE => 2 * easeShaderOut = SCALE)
  /\ [][easeArg <= easeArg' =>
          /\ easeShaderOut <= easeShaderOut'
          /\ easeInlineOut <= easeInlineOut']_vars

\* C9 witness: both copies applied at one half.
C9_Witness ==
  /\ 2 * easeArg = SCALE
  /\ 2 * easeShaderOut = SCALE
  /\ 2 * easeInlineOut = SCALE

\* Stored formed height is non-decreasing in the particle index
HeightByIndex(store) ==
  \A n \in 1..(Len(store) - 1) : store[n].treePos.y <= store[n + 1].treePos.y

\* Squared distance from the tree axis
RadiusSq(p) == p.x * p.x + p.z * p.z

\* Stored formed radius is non-increasing in height
RadiusByHeight(store) ==
  \A a, b \in 1..Len(store) :
    store[a].treePos.y < store[b].treePos.y
      => RadiusSq(store[a].treePos) >= RadiusSq(store[b].treePos)

Taper(store) == HeightByIndex(store) /\ RadiusByHeight(store)

OwnUpdate(delta) ==
  /\ foliageProgress' = Damp(foliageProgress.current, foliageProgress.velocity,
                             TargetOf(treeState), FOLIAGE_SMOOTH, delta)
  /\ lightsProgress' = Damp(lightsProgress.current, lightsProgress.velocity,
                            TargetOf(treeState), LIGHT_SMOOTH, delta)
  /\ userData'.ornamentProgress =
       Damp(ProgressOf("ornaments"), userData.velocity, TargetOf(treeState),
            ORNAMENT_SMOOTH, delta).current
  /\ \A c \in TopperAxes :
       topperScale'[c] = Damp(topperScale[c].current, topperScale[c].velocity,
                              TargetOf(treeState), TOPPER_SMOOTH, delta)

\* C11: a frame update never changes TargetShape nor any stored particle record
\* of any layer, and gives each layer the progress its own integrator makes of
\* that layer's own progress (no layer's progress is written from another's);
\* outside frame updates no progress scalar is written at all, the ornaments'
\* one on the camera's userData included.
C11_FrameWritesOwnProgress ==
  [][/\ lastOp' = "frame" =>
          /\ UNCHANGED <<treeState, foliageAttr, baubles, gifts, lightAttr>>
          /\ \E delta \in Deltas : OwnUpdate(delta)
     /\ lastOp' # "frame" =>
          UNCHANGED <<foliageProgress, userData, lightsProgress, topperScale>>]_vars

\* C11 witness: a frame in mid-transition after a toggle, with the layers at
\* different progress values and the ornaments' progress stored on userData.
C11_Witness ==
  /\ lastOp = "frame"
  /\ toggles >= 1
  /\ userData.defined
  /\ 0 < userData.ornamentProgress /\ userData.ornamentProgress < SCALE
  /\ foliageProgress.current # lightsProgress.current
  /\ lightsProgress.current # topperScale.x.current
  /\ Len(foliageAttr) = FOLIAGE_COUNT /\ Len(lightAttr) = LIGHT_COUNT

\* C12 as stated: until the first toggle TargetShape is SCATTERED, the progress
\* of foliage, fairy lights and ornaments and every axis of the topper's scale
\* are 0, and no frame update changes any of them.
C12_InitialConsistency ==
  /\ [](toggles = 0 =>
          /\ treeState = "SCATTERED"
          /\ \A l \in Layers : ProgressOf(l) = 0
          /\ \A c \in TopperAxes : topperScale[c].current = 0)
  /\ [][(toggles' = 0 /\ lastOp' = "frame") =>
          /\ foliageProgress'.current = foliageProgress.current
          /\ lightsProgress'.current = lightsProgress.current
          /\ ProgressOf("ornaments")' = ProgressOf("ornaments")
          /\ \A c \in TopperAxes : topperScale'[c].current = topperScale[c].current]_vars

=============================================================================
